---- MODULE Spec2Model ----
(***************************************************************************)
(* Job lifecycle of the podcast generator: the in-memory job store, the    *)
(* background orchestration coroutine _generate_podcast, the control       *)
(* routes (create, get, delete-or-cancel, rescan) and the artifact         *)
(* directory, as implemented in backend/app/api/v1/podcast.py.             *)
(*                                                                         *)
(* The event loop is cooperative: a handler, and each stretch of the       *)
(* coroutine between two awaits, runs atomically.  The only await of       *)
(* _generate_podcast is the asyncio.sleep at the head of each of its three *)
(* checkpoints, so one action models one such stretch.                     *)
(***************************************************************************)
EXTENDS Integers, Sequences, FiniteSets, TLC

\* ------------------------------------------------------------------ bounds
MaxJobs == 1
MaxTime == 1

\* ------------------------------------------------------- values and inputs
NoneVal == "<None>"

UuidPool == <<"j1", "j2", "j3", "j4">>

JobIds == {UuidPool[n] : n \in 1..MaxJobs}

\* stems of the *.mp3 files a previous run may have left in the directory
ForeignStems == {"abc123"}
AllIds == JobIds \cup ForeignStems

Time == 0..MaxTime

UserScript == "user script"
\* the request bodies tried: script absent, empty or supplied, no urls
Payloads ==
    {[script |-> NoneVal, source_urls |-> <<>>],
     [script |-> "", source_urls |-> <<>>],
     [script |-> UserScript, source_urls |-> <<>>]}
PayloadTitle == "Demo"

\* what the selected materials directory holds
MaterialKinds == {"pillar", "text", "none"}

\* progress is kept in tenths: 3 stands for 0.3, 10 for 1.0
Checkpoints == 3

VARIABLES
    started,     \* the startup event has run
    STORE,       \* _STORE: the records in dict insertion order
    files,       \* storage directory: stem of each *.mp3 |-> its mtime
    materials,   \* content of the materials directory
    now,         \* the wall clock read by datetime.utcnow()
    pc,          \* position of the coroutine scheduled for each job id
    loop_i,      \* the checkpoint loop variable i of that coroutine
    tts_calls,   \* texts handed to text_to_speech, per job id
    raised,      \* message of the exception raised inside the coroutine
    escaped,     \* ids whose coroutine ended with an uncaught exception
    call,        \* the last call of a read-only route or pure function
                 \* that was observed, with its arguments and its result
    client       \* whether an API key is configured (_client is not None)

vars == <<started, STORE, files, materials, now, pc, loop_i, tts_calls,
          raised, escaped, call, client>>

\* --------------------------------------------------------------- the store
Has(S, id) == \E k \in 1..Len(S) : S[k].id = id

IndexOf(S, id) == CHOOSE k \in 1..Len(S) : S[k].id = id

Get(S, id) == S[IndexOf(S, id)]

\* assignment to fields of the object the dict holds: the position is kept
Put(S, r) ==
    IF Has(S, r.id) THEN [S EXCEPT ![IndexOf(S, r.id)] = r] ELSE Append(S, r)

Pop(S, id) ==
    LET k == IndexOf(S, id)
    IN  SubSeq(S, 1, k - 1) \o SubSeq(S, k + 1, Len(S))

Keys(S) == {S[k].id : k \in 1..Len(S)}

AudioUrl(name) == "/media/audio/" \o name

Mp3Name(id) == id \o ".mp3"

NewState(id, title, script, urls, t) ==
    [id |-> id, title |-> title, description |-> NoneVal, voice |-> NoneVal,
     script |-> script, source_urls |-> urls, status |-> "queued",
     progress |-> 0, audio_url |-> NoneVal, error |-> NoneVal,
     created_at |-> t, updated_at |-> t, materials_set |-> NoneVal]

AsStatus(s) ==
    [id |-> s.id, status |-> s.status, progress |-> s.progress,
     title |-> s.title, description |-> s.description, voice |-> s.voice,
     audio_url |-> s.audio_url, error |-> s.error,
     created_at |-> s.created_at, updated_at |-> s.updated_at]

NoCall == [fn |-> "none"]

\* the process before its startup hook has run
InitProcess ==
    /\ started = FALSE
    /\ STORE = <<>>
    /\ files \in UNION {[F -> {0}] : F \in SUBSET ForeignStems}
    /\ materials \in MaterialKinds
    /\ now = 0
    /\ pc = [id \in AllIds |-> "none"]
    /\ loop_i = [id \in AllIds |-> 0]
    /\ tts_calls = [id \in AllIds |-> <<>>]
    /\ raised = [id \in AllIds |-> NoneVal]
    /\ escaped = {}
    /\ call = NoCall

\* the default configuration has no API key: openai_api_key = ""
Init == InitProcess /\ client = FALSE

\* the clock advances between any two steps
Tick ==
    /\ now < MaxTime
    /\ now' = now + 1
    /\ UNCHANGED <<started, STORE, files, materials, pc, loop_i, tts_calls,
                   raised, escaped, call, client>>

\* ------------------------------------------------- reconciliation scan
\* the orders in which storage.glob("*.mp3") may yield the files
GlobOrders(F) ==
    {o \in [1..Cardinality(DOMAIN F) -> DOMAIN F] :
        \A a, b \in 1..Cardinality(DOMAIN F) : a # b => o[a] # o[b]}

\* the record of a scan that drops the file's extension from the url
BootstrapRecord_StemUrl(stem, ts) ==
    [id |-> stem, title |-> "Episode " \o stem, description |-> NoneVal,
     voice |-> NoneVal, script |-> NoneVal, source_urls |-> <<>>,
     status |-> "done", progress |-> 10,
     audio_url |-> AudioUrl(stem), error |-> NoneVal,
     created_at |-> ts, updated_at |-> ts, materials_set |-> NoneVal]

BootstrapRecord(stem, ts) ==
    [id |-> stem, title |-> "Episode " \o stem, description |-> NoneVal,
     voice |-> NoneVal, script |-> NoneVal, source_urls |-> <<>>,
     status |-> "done", progress |-> 10,
     audio_url |-> AudioUrl(Mp3Name(stem)), error |-> NoneVal,
     created_at |-> ts, updated_at |-> ts, materials_set |-> NoneVal]

\* the loop over the files glob yields; bad holds the files whose stat()
\* raises, which the inner `except Exception: continue` skips
RECURSIVE BootstrapLoop(_, _, _, _, _)
BootstrapLoop(S, F, order, bad, added) ==
    IF order = <<>> THEN [store |-> S, added |-> added]
    ELSE LET stem == Head(order)
         IN  IF Has(S, stem) \/ stem \in bad
             THEN BootstrapLoop(S, F, Tail(order), bad, added)
             ELSE BootstrapLoop(Append(S, BootstrapRecord(stem, F[stem])),
                                F, Tail(order), bad, added + 1)

\* a scan that rebuilds the store from the directory alone
bootstrap_from_storage_Fresh(S, F, order, bad) ==
    BootstrapLoop(<<>>, F, order, bad, 0)

bootstrap_from_storage(S, F, order, bad) == BootstrapLoop(S, F, order, bad, 0)

\* stat() is reached, and so can raise, only for a file without a record
StatCalled(S, F) == DOMAIN F \ Keys(S)

Startup ==
    /\ ~started
    /\ started' = TRUE
    /\ \E order \in GlobOrders(files), bad \in SUBSET StatCalled(STORE, files) :
           STORE' = bootstrap_from_storage(STORE, files, order, bad).store
    /\ UNCHANGED <<files, materials, now, pc, loop_i, tts_calls, raised,
                   escaped, call, client>>

\* the body returned by the rescan route when glob yields `order`
rescan_response(S, F, order, bad) ==
    LET b == bootstrap_from_storage(S, F, order, bad)
    IN  [added |-> b.added, total |-> Len(b.store)]

rescan_storage ==
    /\ started
    /\ \E order \in GlobOrders(files), bad \in SUBSET StatCalled(STORE, files) :
           STORE' = bootstrap_from_storage(STORE, files, order, bad).store
    /\ UNCHANGED <<started, files, materials, now, pc, loop_i, tts_calls,
                   raised, escaped, call, client>>

\* ------------------------------------------------------------------ create
\* an id generator that may return an id again
FreshId_MayRepeat(id) == TRUE

\* uuid4 yields an id no earlier call has returned
FreshId(id) ==
    /\ pc[id] = "none"
    /\ \A n \in 1..MaxJobs :
           UuidPool[n] = id => \A m \in 1..(n - 1) : pc[UuidPool[m]] # "none"

create_podcast(id, payload) ==
    /\ started
    /\ id \in JobIds
    /\ FreshId(id)
    /\ STORE' = Put(STORE, NewState(id, PayloadTitle, payload.script,
                                   payload.source_urls, now))
    /\ pc' = [pc EXCEPT ![id] = "scheduled"]
    /\ UNCHANGED <<started, files, materials, now, loop_i, tts_calls, raised,
                   escaped, call, client>>

\* ----------------------------------------------------------- orchestration
Terminalish == {"cancelled", "failed", "done"}

\* the entry guard with "done" left out of the set
EntryGuard_NoDone(S, id) ==
    ~Has(S, id) \/ Get(S, id).status \in {"cancelled", "failed"}

\* the entry guard: `if not state or state.status in {...}: return`
EntryGuard(S, id) == ~Has(S, id) \/ Get(S, id).status \in Terminalish

\* the script-acquisition branch entered on every pass
NeedsScript_Always(script) == TRUE

\* `if not state.script`: None and the empty string both count as missing
NeedsScript(script) == script = NoneVal \/ script = ""

\* the join without its `or "no sources"`
Joined_NoFallback(urls) == IF urls = <<>> THEN "" ELSE urls[1]

\* ", ".join(str(u) for u in state.source_urls) or "no sources"
Joined(urls) == IF urls = <<>> THEN "no sources" ELSE urls[1]

AutoScript(title, urls) ==
    "[Auto-script] Podcast '" \o title \o "'. Sources: " \o Joined(urls)
        \o ". This is a demo script - replace with the actual generated content."

\* what the local composers return or raise for the materials found:
\* _two_host_local_from_pillar raises on a malformed pillar (a title or a
\* topic of the wrong type), _two_host_local_dialogue always returns, and
\* with no materials the placeholder is built in place
LocalOutcomes(kind, title, urls) ==
    CASE kind = "pillar" ->
            {[ok |-> TRUE, val |-> "pillar script"],
             [ok |-> FALSE, val |-> "pillar error"]}
      [] kind = "text" -> {[ok |-> TRUE, val |-> "dialogue script"]}
      [] OTHER -> {[ok |-> TRUE, val |-> AutoScript(title, urls)]}

\* the remote call returns content, returns an empty or None content,
\* returns no choices, or raises
RemoteOutcomes == {"content", "empty", "no_choices", "raise"}

RemoteScript == "remote script"

\* a generate_script that lets the remote exception through
generate_script_NoFallback(cl, remote, local) ==
    IF ~cl THEN local
    ELSE IF remote = "content" THEN [ok |-> TRUE, val |-> RemoteScript]
    ELSE IF remote = "raise" THEN [ok |-> FALSE, val |-> "remote error"]
    ELSE local

\* generate_script with _client set or not, the outcome of the remote call
\* and what _two_host_local_dialogue does on the same materials
generate_script(cl, remote, local) ==
    IF ~cl THEN local
    ELSE IF remote = "raise" THEN local
    ELSE LET content == IF remote = "content" THEN RemoteScript ELSE ""
         IN  IF content # "" THEN [ok |-> TRUE, val |-> content] ELSE local

\* generate_script_from_pillar, likewise with _two_host_local_from_pillar
generate_script_from_pillar(cl, remote, local) ==
    IF ~cl THEN local
    ELSE IF remote = "raise" THEN local
    ELSE LET content == IF remote = "content" THEN RemoteScript ELSE ""
         IN  IF content # "" THEN [ok |-> TRUE, val |-> content] ELSE local

\* the script-acquisition branch of the loop body
Produce(kind, cl, remote, local) ==
    CASE kind = "pillar" -> generate_script_from_pillar(cl, remote, local)
      [] kind = "text" -> generate_script(cl, remote, local)
      [] OTHER -> local

\* what the script-acquisition branch can yield for the materials found
ProduceOutcomes(kind, title, urls) ==
    {Produce(kind, client, remote, local) :
        remote \in RemoteOutcomes, local \in LocalOutcomes(kind, title, urls)}

MakedirsOutcomes == {"ok", "raise"}

\* text_to_speech writes the file, or raises before or after creating it
TtsOutcomes == {"ok", "raise", "raise_partial"}

\* os.makedirs placed before the `try:`
InTry_MakedirsOutside(step) == step \in {"produce", "tts"}

\* the statements from `try:` to before `except` are all inside the try
InTry(step) == step \in {"produce", "makedirs", "tts"}

\* the except clause without the assignment to error
OnException_NoError(r, msg, t) ==
    [r EXCEPT !.status = "failed", !.updated_at = t]

\* the except clause without the assignment to status
OnException_KeepsStatus(r, msg, t) ==
    [r EXCEPT !.error = msg, !.updated_at = t]

\* the except clause
OnException(r, msg, t) ==
    [r EXCEPT !.status = "failed", !.error = msg, !.updated_at = t]

\* audio_url assigned, the status assignment forgotten
OnSynthesized_NoStatus(r, t) ==
    [r EXCEPT !.audio_url = AudioUrl(Mp3Name(r.id)), !.progress = 10,
              !.updated_at = t]

\* the statements after a successful text_to_speech
OnSynthesized(r, t) ==
    [r EXCEPT !.audio_url = AudioUrl(Mp3Name(r.id)), !.progress = 10,
              !.status = "done", !.updated_at = t]

\* a loop body whose progress counts down
CheckpointBody_CountsDown(r, i, prod, t) ==
    LET r1 == [r EXCEPT !.progress = Checkpoints - i, !.updated_at = t]
    IN  IF ~NeedsScript(r1.script) THEN [state |-> r1, exc |-> NoneVal]
        ELSE IF prod.ok
             THEN [state |-> [r1 EXCEPT !.script = prod.val], exc |-> NoneVal]
             ELSE [state |-> r1, exc |-> prod.val]

\* one pass of the loop body after the sleep has returned
CheckpointBody(r, i, prod, t) ==
    LET r1 == [r EXCEPT !.progress = i, !.updated_at = t]
    IN  IF ~NeedsScript(r1.script) THEN [state |-> r1, exc |-> NoneVal]
        ELSE IF prod.ok
             THEN [state |-> [r1 EXCEPT !.script = prod.val], exc |-> NoneVal]
             ELSE [state |-> r1, exc |-> prod.val]

TtsText(r) == IF NeedsScript(r.script) THEN r.title ELSE r.script

\* the invocation up to its first await
Generate(id) ==
    IF EntryGuard(STORE, id)
    THEN /\ pc' = [pc EXCEPT ![id] = "returned"]
         /\ UNCHANGED <<started, STORE, files, materials, now, loop_i,
                        tts_calls, raised, escaped, call, client>>
    ELSE /\ STORE' = Put(STORE, [Get(STORE, id) EXCEPT
                                   !.status = "running", !.updated_at = now])
         /\ pc' = [pc EXCEPT ![id] = "sleep"]
         /\ loop_i' = [loop_i EXCEPT ![id] = 1]
         /\ UNCHANGED <<started, files, materials, now, tts_calls, raised,
                        escaped, call, client>>

\* the background task scheduled by create starts
GenerateStart(id) ==
    /\ pc[id] = "scheduled"
    /\ Generate(id)

\* how the coroutine ends when `step` raises `msg` with the record at r
Raise(id, r, step, msg) ==
    /\ raised' = [raised EXCEPT ![id] = msg]
    /\ pc' = [pc EXCEPT ![id] = "finished"]
    /\ IF InTry(step)
       THEN /\ STORE' = Put(STORE, OnException(r, msg, now))
            /\ escaped' = escaped
       ELSE /\ STORE' = Put(STORE, r)
            /\ escaped' = escaped \cup {id}

\* a checkpoint sleep returns: the loop body runs and, after the third
\* pass, the synthesis step, with no await in between; prod, mk and tts
\* are what script acquisition, os.makedirs and text_to_speech do if called
CheckpointStep(id, prod, mk, tts) ==
    /\ pc[id] = "sleep"
    /\ Has(STORE, id)
    /\ LET i == loop_i[id]
           b == CheckpointBody(Get(STORE, id), i, prod, now)
           r == b.state
       IN  IF b.exc # NoneVal
           THEN /\ Raise(id, r, "produce", b.exc)
                /\ UNCHANGED <<files, loop_i, tts_calls>>
           ELSE IF i < Checkpoints
           THEN /\ STORE' = Put(STORE, r)
                /\ loop_i' = [loop_i EXCEPT ![id] = i + 1]
                /\ UNCHANGED <<files, pc, tts_calls, raised, escaped>>
           ELSE IF mk = "raise"
           THEN /\ Raise(id, r, "makedirs", "makedirs error")
                /\ UNCHANGED <<files, loop_i, tts_calls>>
           ELSE /\ tts_calls' = [tts_calls EXCEPT
                                   ![id] = Append(@, TtsText(r))]
                /\ files' = IF tts = "raise" THEN files
                            ELSE [s \in DOMAIN files \cup {id} |->
                                     IF s = id THEN now ELSE files[s]]
                /\ IF tts = "ok"
                   THEN /\ STORE' = Put(STORE, OnSynthesized(r, now))
                        /\ pc' = [pc EXCEPT ![id] = "finished"]
                        /\ UNCHANGED <<raised, escaped>>
                   ELSE Raise(id, r, "tts", "tts error")
                /\ UNCHANGED loop_i
    /\ UNCHANGED <<started, materials, now, call, client>>

Checkpoint(id) ==
    /\ pc[id] = "sleep"
    /\ Has(STORE, id)
    /\ \E prod \in ProduceOutcomes(materials, Get(STORE, id).title,
                                   Get(STORE, id).source_urls),
          mk \in (IF loop_i[id] < Checkpoints THEN {"ok"}
                   ELSE MakedirsOutcomes),
          tts \in (IF loop_i[id] < Checkpoints THEN {"ok"}
                    ELSE TtsOutcomes) :
        CheckpointStep(id, prod, mk, tts)

\* ------------------------------------------------------------------ routes
NotFound == [code |-> 404, body |-> [detail |-> "Podcast not found"]]

\* only failed jobs are removed
Deletable_OnlyFailed == {"failed"}

\* the statuses on which delete-or-cancel removes the record
Deletable == {"done", "failed"}

\* os.remove succeeds, or raises and the error is swallowed
RemoveOutcomes == {"ok", "raise"}

\* delete-or-cancel that also removes cancelled jobs
cancel_or_delete_PopCancelled(S, F, id, rm, t) ==
    IF ~Has(S, id)
    THEN [store |-> S, files |-> F, resp |-> NotFound]
    ELSE IF Get(S, id).status \in Deletable \cup {"cancelled"}
    THEN [store |-> Pop(S, id),
          files |-> IF id \in DOMAIN F /\ rm = "ok"
                    THEN [s \in DOMAIN F \ {id} |-> F[s]]
                    ELSE F,
          resp |-> [code |-> 200, body |-> AsStatus(Get(S, id))]]
    ELSE LET state == [Get(S, id) EXCEPT !.status = "cancelled",
                                         !.updated_at = t]
         IN  [store |-> Put(S, state), files |-> F,
              resp |-> [code |-> 200, body |-> AsStatus(state)]]

\* delete-or-cancel that takes the snapshot before marking the job
cancel_or_delete_StaleSnapshot(S, F, id, rm, t) ==
    IF ~Has(S, id)
    THEN [store |-> S, files |-> F, resp |-> NotFound]
    ELSE IF Get(S, id).status \in Deletable
    THEN [store |-> Pop(S, id),
          files |-> IF id \in DOMAIN F /\ rm = "ok"
                    THEN [s \in DOMAIN F \ {id} |-> F[s]]
                    ELSE F,
          resp |-> [code |-> 200, body |-> AsStatus(Get(S, id))]]
    ELSE LET state == [Get(S, id) EXCEPT !.status = "cancelled",
                                         !.updated_at = t]
         IN  [store |-> Put(S, state), files |-> F,
              resp |-> [code |-> 200, body |-> AsStatus(Get(S, id))]]

\* delete-or-cancel that removes the artifact of a done job but keeps the
\* record
cancel_or_delete_KeepsDone(S, F, id, rm, t) ==
    IF ~Has(S, id)
    THEN [store |-> S, files |-> F, resp |-> NotFound]
    ELSE IF Get(S, id).status \in Deletable
    THEN [store |-> IF Get(S, id).status = "done" THEN S ELSE Pop(S, id),
          files |-> IF id \in DOMAIN F /\ rm = "ok"
                    THEN [s \in DOMAIN F \ {id} |-> F[s]]
                    ELSE F,
          resp |-> [code |-> 200, body |-> AsStatus(Get(S, id))]]
    ELSE LET state == [Get(S, id) EXCEPT !.status = "cancelled",
                                         !.updated_at = t]
         IN  [store |-> Put(S, state), files |-> F,
              resp |-> [code |-> 200, body |-> AsStatus(state)]]

\* delete-or-cancel that marks the job without touching updated_at
cancel_or_delete_NoTouch(S, F, id, rm, t) ==
    IF ~Has(S, id)
    THEN [store |-> S, files |-> F, resp |-> NotFound]
    ELSE IF Get(S, id).status \in Deletable
    THEN [store |-> Pop(S, id),
          files |-> IF id \in DOMAIN F /\ rm = "ok"
                    THEN [s \in DOMAIN F \ {id} |-> F[s]]
                    ELSE F,
          resp |-> [code |-> 200, body |-> AsStatus(Get(S, id))]]
    ELSE LET state == [Get(S, id) EXCEPT !.status = "cancelled"]
         IN  [store |-> Put(S, state), files |-> F,
              resp |-> [code |-> 200, body |-> AsStatus(state)]]

\* delete-or-cancel on store S and directory F at time t: the store and
\* directory it leaves and the response it returns
cancel_or_delete(S, F, id, rm, t) ==
    IF ~Has(S, id)
    THEN [store |-> S, files |-> F, resp |-> NotFound]
    ELSE IF Get(S, id).status \in Deletable
    THEN LET removed == Get(S, id)
         IN  [store |-> Pop(S, id),
              files |-> IF id \in DOMAIN F /\ rm = "ok"
                        THEN [s \in DOMAIN F \ {id} |-> F[s]]
                        ELSE F,
              resp |-> [code |-> 200, body |-> AsStatus(removed)]]
    ELSE LET state == [Get(S, id) EXCEPT !.status = "cancelled",
                                         !.updated_at = t]
         IN  [store |-> Put(S, state), files |-> F,
              resp |-> [code |-> 200, body |-> AsStatus(state)]]

\* os.remove is called, and so can raise, only for a job that is being
\* deleted and whose file exists
RemoveCalled(S, F, id) ==
    Has(S, id) /\ Get(S, id).status \in Deletable /\ id \in DOMAIN F

cancel_or_delete_podcast(id, rm) ==
    /\ started
    /\ rm = "raise" => RemoveCalled(STORE, files, id)
    /\ LET res == cancel_or_delete(STORE, files, id, rm, now)
       IN  /\ STORE' = res.store
           /\ files' = res.files
    /\ UNCHANGED <<started, materials, now, pc, loop_i, tts_calls, raised,
                   escaped, call, client>>

\* ------------------------------------------------------ read-only routes
\* a lookup without the `if not state` check
get_response_NoCheck(S, id) ==
    [code |-> 200,
     body |-> IF Has(S, id) THEN AsStatus(Get(S, id)) ELSE NoneVal]

\* GET /{podcast_id}
get_response(S, id) ==
    IF ~Has(S, id)
    THEN NotFound
    ELSE [code |-> 200, body |-> AsStatus(Get(S, id))]

\* Python's seq[a:b] for 0 <= a <= b
Slice(seq, a, b) ==
    LET hi == IF b < Len(seq) THEN b ELSE Len(seq)
    IN  IF a >= hi THEN <<>> ELSE SubSeq(seq, a + 1, hi)

\* `if status:` is false for an absent and for an empty parameter
Truthy(x) == x # NoneVal /\ x # ""

\* a listing that cuts the page out before it filters
list_response_SliceFirst(S, limit, offset, status) ==
    LET page  == Slice(S, offset, offset + limit)
        items == IF Truthy(status)
                 THEN SelectSeq(page, LAMBDA s : s.status = status)
                 ELSE page
    IN  [code |-> 200,
         body |-> [items |-> [k \in 1..Len(items) |-> AsStatus(items[k])],
                   total |-> Len(items)]]

\* GET / with query parameters limit, offset and status
list_response(S, limit, offset, status) ==
    LET items == IF Truthy(status)
                 THEN SelectSeq(S, LAMBDA s : s.status = status)
                 ELSE S
        total == Len(items)
        page  == Slice(items, offset, offset + limit)
    IN  [code |-> 200,
         body |-> [items |-> [k \in 1..Len(page) |-> AsStatus(page[k])],
                   total |-> total]]

Next ==
    \/ Tick
    \/ Startup
    \/ rescan_storage
    \/ \E id \in JobIds, payload \in Payloads : create_podcast(id, payload)
    \/ \E id \in AllIds : GenerateStart(id)
    \/ \E id \in AllIds : Checkpoint(id)
    \/ \E id \in AllIds, rm \in RemoveOutcomes :
           cancel_or_delete_podcast(id, rm)

Spec == Init /\ [][Next]_vars

\* ---------------------------------------------- re-invoked orchestration
\* _generate_podcast called once more for a job whose run has ended; the
\* job may be done, failed, cancelled or deleted by then
Reinvoke(id) ==
    /\ started
    /\ pc[id] \in {"returned", "finished"}
    /\ Generate(id)

NextReentry == Next \/ \E id \in JobIds : Reinvoke(id)

SpecReentry == Init /\ [][NextReentry]_vars

\* ------------------------------------------------- with an API key set
InitRemote == InitProcess /\ client = TRUE

\* the steps of the process at one reading of the clock
NextRemote ==
    \/ Startup
    \/ rescan_storage
    \/ \E id \in JobIds, payload \in Payloads : create_podcast(id, payload)
    \/ \E id \in AllIds : GenerateStart(id)
    \/ \E id \in AllIds : Checkpoint(id)
    \/ \E id \in AllIds, rm \in RemoveOutcomes :
           cancel_or_delete_podcast(id, rm)

SpecRemote == InitRemote /\ [][NextRemote]_vars

\* ------------------------------------------------- the materials blob
\* a material file is the length of its name and the length of the text
\* _read_file_text returns for it; a block of the blob is a header and a
\* prefix of that text, given by their lengths
PER_FILE_CAP == 200000

GLOBAL_CAP == 500000

\* len(f"\n--- FILE: {os.path.basename(fp)} ---\n")
HeaderLen(name_len) == 11 + name_len + 5

Min2(a, b) == IF a < b THEN a ELSE b

Max2(a, b) == IF a > b THEN a ELSE b

\* the loop over the files, with the chunks and the total gathered so far
RECURSIVE LoadLoop(_, _, _)
LoadLoop(fs, chunks, total) ==
    IF fs = <<>> THEN chunks
    ELSE LET f       == Head(fs)
             snippet == Min2(f.text, PER_FILE_CAP)
             header  == HeaderLen(f.name)
         IN  IF f.text = 0 THEN LoadLoop(Tail(fs), chunks, total)
             ELSE IF total + header + snippet > GLOBAL_CAP
             THEN LET remaining == Max2(0, GLOBAL_CAP - total)
                  IN  IF remaining <= header THEN chunks
                      ELSE \* after this block total = GLOBAL_CAP: break
                           Append(chunks,
                                  [header |-> header,
                                   taken |-> Min2(snippet, remaining - header)])
             ELSE LET block == [header |-> header, taken |-> snippet]
                      t     == total + header + snippet
                  IN  IF t >= GLOBAL_CAP THEN Append(chunks, block)
                      ELSE LoadLoop(Tail(fs), Append(chunks, block), t)

RECURSIVE SumLen(_)
SumLen(chunks) ==
    IF chunks = <<>> THEN 0
    ELSE Head(chunks).header + Head(chunks).taken + SumLen(Tail(chunks))

\* len("\n".join(chunks))
JoinLen(chunks) == SumLen(chunks) + Max2(0, Len(chunks) - 1)

\* _load_materials_text on the files in the order os.walk yields them
load_materials_text(fs) ==
    LET chunks == LoadLoop(fs, <<>>, 0)
    IN  [chunks |-> chunks, len |-> JoinLen(chunks)]

\* up to MaxFiles files; texts that are empty, fill the per-file budget,
\* exceed it, or bring the total to just below the global budget
MaxFiles == 4

TextLensTried == {0, 99930, 99958, 200000, 300000}

NameLensTried == {5, 14}

MaterialFiles == [name : NameLensTried, text : TextLensTried]

MaterialInputs == UNION {[1..n -> MaterialFiles] : n \in 0..MaxFiles}

InitMaterials ==
    /\ started = FALSE
    /\ STORE = <<>>
    /\ files = <<>>
    /\ materials = "text"
    /\ now = 0
    /\ pc = [id \in AllIds |-> "none"]
    /\ loop_i = [id \in AllIds |-> 0]
    /\ tts_calls = [id \in AllIds |-> <<>>]
    /\ raised = [id \in AllIds |-> NoneVal]
    /\ escaped = {}
    /\ call \in {[fn |-> "input", fs |-> fs] : fs \in MaterialInputs}
    /\ client = FALSE

ApplyLoadMaterialsText ==
    /\ call.fn = "input"
    /\ call' = [fn |-> "_load_materials_text", fs |-> call.fs,
                ret |-> load_materials_text(call.fs)]
    /\ UNCHANGED <<started, STORE, files, materials, now, pc, loop_i,
                   tts_calls, raised, escaped, client>>

SpecMaterials == InitMaterials /\ [][ApplyLoadMaterialsText]_vars

\* ------------------------------------- the chunks path of the composer
\* _two_host_local_from_pillar on a pillar without topics whose chunks give
\* n readable sentences; a sentence is its position in that list, a line of
\* the script is its kind, its segment, the sentence it carries and its host
MaxSentences == 200

MAX_SENTS == 180

\* a window of ten sentences
WindowLen_Ten(len, i) == Min2(10, len - i)

\* len(sents[i : i + 7])
WindowLen(len, i) == Min2(7, len - i)

\* a step of five whatever the window
StepOf_Five(w) == 5

\* step = max(5, min(7, len(window)))
StepOf(w) == Max2(5, Min2(7, w))

Line(kind, seg, sent, host) ==
    [kind |-> kind, seg |-> seg, sent |-> sent, host |-> host]

\* the header of a segment and the spoken lines of its window
SegmentLines(i, seg, w) ==
    <<Line("header", seg, i + 1, "A")>>
    \o [j1 \in 1..w |->
          Line(CASE j1 = 1 -> "key point"
                 [] j1 = 2 -> "put simply"
                 [] OTHER  -> "plain",
               seg, i + j1,
               IF (i + j1 - 1) % 2 = 0 THEN "A" ELSE "B")]

InitSegments ==
    /\ started = FALSE
    /\ STORE = <<>>
    /\ files = <<>>
    /\ materials = "pillar"
    /\ now = 0
    /\ pc = [id \in AllIds |-> "none"]
    /\ loop_i = [id \in AllIds |-> 0]
    /\ tts_calls = [id \in AllIds |-> <<>>]
    /\ raised = [id \in AllIds |-> NoneVal]
    /\ escaped = {}
    /\ call \in {[fn |-> "input", n |-> n, len |-> 0, i |-> 0, seg |-> 0,
                  lines |-> <<>>] : n \in 0..MaxSentences}
    /\ client = FALSE

\* `if not sents:` the placeholder line; else sents = sents[:MAX_SENTS]
\* and the loop is entered with seg = 1, i = 0
EnterChunksPath ==
    /\ call.fn = "input"
    /\ call' = IF call.n = 0
               THEN [call EXCEPT !.fn = "done",
                                 !.lines = <<Line("limited notes", 0, 0, "B")>>]
               ELSE [call EXCEPT !.fn = "loop", !.seg = 1,
                                 !.len = Min2(call.n, MAX_SENTS)]
    /\ UNCHANGED <<started, STORE, files, materials, now, pc, loop_i,
                   tts_calls, raised, escaped, client>>

\* one pass of `while i < len(sents):`
SegmentPass ==
    /\ call.fn = "loop"
    /\ call.i < call.len
    /\ LET w   == WindowLen(call.len, call.i)
           seg == call.seg + 1
       IN  call' = [call EXCEPT
                       !.lines = @ \o SegmentLines(call.i, call.seg, w)
                                   \o (IF seg % 4 = 0
                                       THEN <<Line("checkpoint", seg, 0, "B")>>
                                       ELSE <<>>),
                       !.seg = seg,
                       !.i = @ + StepOf(w)]
    /\ UNCHANGED <<started, STORE, files, materials, now, pc, loop_i,
                   tts_calls, raised, escaped, client>>

\* the loop condition is false
SegmentLoopExit ==
    /\ call.fn = "loop"
    /\ call.i >= call.len
    /\ call' = [call EXCEPT !.fn = "done"]
    /\ UNCHANGED <<started, STORE, files, materials, now, pc, loop_i,
                   tts_calls, raised, escaped, client>>

NextSegments == EnterChunksPath \/ SegmentPass \/ SegmentLoopExit

\* the composer is a plain function: it keeps running until it returns
SpecSegments == InitSegments /\ [][NextSegments]_vars /\ WF_vars(NextSegments)

\* ------------------------------------------------ every run under fairness
\* all handlers, with every fault, at one reading of the clock; the event
\* loop starts every scheduled task and every sleep returns; the call of
\* text_to_speech is part of the last checkpoint step, so it returns or
\* raises
TaskFairness ==
    \A id \in AllIds : WF_vars(GenerateStart(id)) /\ WF_vars(Checkpoint(id))

SpecFair == Init /\ [][NextRemote]_vars /\ TaskFairness

\* ------------------------------------------------------------ the listing
\* stores of up to MaxListLen jobs, each in any of the five statuses, and
\* the listing route applied to them
MaxListLen == 3

MaxLimit == 2

Statuses == {"queued", "running", "done", "failed", "cancelled"}

\* Query(25, ge=1, le=100): small limits and the largest one
ListLimits == (1..MaxLimit) \cup {100}

ListOffsets == 0..(MaxListLen + 1)

StatusFilters == Statuses \cup {NoneVal, "", "archived"}

\* the record of a job that is in status st
RecordIn(id, st) ==
    LET r == NewState(id, PayloadTitle, NoneVal, <<>>, 0)
    IN  CASE st = "queued"    -> r
          [] st = "running"   -> [r EXCEPT !.status = "running",
                                           !.progress = 1]
          [] st = "cancelled" -> [r EXCEPT !.status = "cancelled"]
          [] st = "failed"    -> OnException(r, "boom", 0)
          [] st = "done"      -> OnSynthesized(r, 0)

ListStores ==
    UNION {{[k \in 1..n |-> RecordIn("job" \o ToString(k), st[k])] :
               st \in [1..n -> Statuses]} : n \in 0..MaxListLen}

InitList ==
    /\ started = TRUE
    /\ STORE \in ListStores
    /\ files = <<>>
    /\ materials = "none"
    /\ now = 0
    /\ pc = [id \in AllIds |-> "none"]
    /\ loop_i = [id \in AllIds |-> 0]
    /\ tts_calls = [id \in AllIds |-> <<>>]
    /\ raised = [id \in AllIds |-> NoneVal]
    /\ escaped = {}
    /\ call = NoCall
    /\ client = FALSE

list_podcasts(limit, offset, status) ==
    /\ started
    /\ call' = [fn |-> "list_podcasts", limit |-> limit, offset |-> offset,
                status |-> status,
                ret |-> list_response(STORE, limit, offset, status)]
    /\ UNCHANGED <<started, STORE, files, materials, now, pc, loop_i,
                   tts_calls, raised, escaped, client>>

NextList ==
    \E limit \in ListLimits, offset \in ListOffsets, status \in StatusFilters :
        list_podcasts(limit, offset, status)

SpecList == InitList /\ [][NextList]_vars

\* ------------------------------------------------------- lookups by id
\* the stores of the listing, with or without the artifact of the first
\* job and an artifact nobody has a record for; point lookups and
\* delete-or-cancel requests for ids in and not in the store
LookupIds == {"job" \o ToString(k) : k \in 1..MaxListLen} \cup {"orphan"}

InitLookup ==
    /\ started = TRUE
    /\ STORE \in ListStores
    /\ files \in UNION {[F -> {0}] : F \in SUBSET {"job1", "orphan"}}
    /\ materials = "none"
    /\ now = 0
    /\ pc = [id \in AllIds |-> "none"]
    /\ loop_i = [id \in AllIds |-> 0]
    /\ tts_calls = [id \in AllIds |-> <<>>]
    /\ raised = [id \in AllIds |-> NoneVal]
    /\ escaped = {}
    /\ call = NoCall
    /\ client = FALSE

get_podcast(id) ==
    /\ started
    /\ call' = [fn |-> "get_podcast", id |-> id,
                ret |-> get_response(STORE, id)]
    /\ UNCHANGED <<started, STORE, files, materials, now, pc, loop_i,
                   tts_calls, raised, escaped, client>>

NextLookup ==
    \/ \E id \in LookupIds : get_podcast(id)
    \/ \E id \in LookupIds, rm \in RemoveOutcomes :
           cancel_or_delete_podcast(id, rm)

SpecLookup == InitLookup /\ [][NextLookup]_vars

\* ------------------------------------------------- the readability filter
\* a string is a sequence of characters
Letters == {"a", "h", "t", "p", "s", "w"}

Whitespace == {" "}

\* str.isalpha on one character
isalpha(ch) == ch \in Letters

\* str.strip(): leading and trailing whitespace removed
strip(s) ==
    LET idx == {k \in 1..Len(s) : s[k] \notin Whitespace}
    IN  IF idx = {} THEN <<>>
        ELSE SubSeq(s, CHOOSE k \in idx : \A j \in idx : k <= j,
                       CHOOSE k \in idx : \A j \in idx : k >= j)

\* sum(ch.isalpha() for ch in s)
CountLetters(s) == Cardinality({k \in 1..Len(s) : isalpha(s[k])})

\* `tok in s`
Contains(s, tok) ==
    \E k \in 1..(Len(s) - Len(tok) + 1) : SubSeq(s, k, k + Len(tok) - 1) = tok

MarkerTokens ==
    {<<"h", "t", "t", "p", ":", "/", "/">>,
     <<"h", "t", "t", "p", "s", ":", "/", "/">>,
     <<"w", "w", "w", ".">>, <<"@">>, <<"#">>, <<"_", "_">>}

\* the quotient a / b of two floats rounded to the nearest multiple of
\* 2^-MantissaBits; a double keeps 53 bits, of which this many are modelled
MantissaBits == 20

FloatDiv(a, b) == (2 * a * 2^MantissaBits + b) \div (2 * b)

\* the literal 0.55
Float055 == FloatDiv(55, 100)

\* the filter without its upper length limit
readable_sentence_NoUpper(s0) ==
    LET s == strip(s0)
    IN  IF Len(s) < 20 THEN FALSE
        ELSE LET letters == CountLetters(s)
                 ratio   == FloatDiv(letters, IF Len(s) > 1 THEN Len(s) ELSE 1)
             IN  IF ratio < Float055 THEN FALSE
                 ELSE IF \E tok \in MarkerTokens : Contains(s, tok) THEN FALSE
                 ELSE TRUE

\* _readable_sentence
readable_sentence(s0) ==
    LET s == strip(s0)
    IN  IF Len(s) < 20 \/ Len(s) > 260 THEN FALSE
        ELSE LET letters == CountLetters(s)
                 ratio   == FloatDiv(letters, IF Len(s) > 1 THEN Len(s) ELSE 1)
             IN  IF ratio < Float055 THEN FALSE
                 ELSE IF \E tok \in MarkerTokens : Contains(s, tok) THEN FALSE
                 ELSE TRUE

\* is_readable_sentence, the copy nested in _two_host_local_dialogue
is_readable_sentence(s0) ==
    LET s == strip(s0)
    IN  IF Len(s) < 20 \/ Len(s) > 260 THEN FALSE
        ELSE LET letters == CountLetters(s)
                 ratio   == FloatDiv(letters, IF Len(s) > 1 THEN Len(s) ELSE 1)
             IN  IF ratio < Float055 THEN FALSE
                 ELSE IF \E token \in MarkerTokens : Contains(s, token)
                      THEN FALSE
                 ELSE TRUE

\* the inputs tried: up to MaxPad blanks on either side of a text of
\* letters, possibly one marker, and digits; the texts have lengths at and
\* around both limits and letter counts at and around 55% of the length
MaxPad == 1

Rep(ch, n) == [k \in 1..n |-> ch]

TextLens == {0, 1, 19, 20, 21, 40, 100, 259, 260, 261}

LetterCounts(n) ==
    ({0, n} \cup {(55 * n) \div 100 + d : d \in {-1, 0, 1, 2}}) \cap 0..n

MarkersTried == {<<>>, <<"@">>, <<"_", "_">>, <<"w", "w", "w", ".">>}

FilterInputs ==
    {Rep(" ", lead) \o Rep("a", c[2]) \o tok \o Rep("1", c[1] - c[2])
        \o Rep(" ", trail) :
        lead \in 0..MaxPad, trail \in 0..MaxPad, tok \in MarkersTried,
        c \in {p \in TextLens \X (0..261) : p[2] \in LetterCounts(p[1])}}

InitFilter ==
    /\ started = FALSE
    /\ STORE = <<>>
    /\ files = <<>>
    /\ materials = "text"
    /\ now = 0
    /\ pc = [id \in AllIds |-> "none"]
    /\ loop_i = [id \in AllIds |-> 0]
    /\ tts_calls = [id \in AllIds |-> <<>>]
    /\ raised = [id \in AllIds |-> NoneVal]
    /\ escaped = {}
    /\ call \in {[fn |-> "input", s |-> s] : s \in FilterInputs}
    /\ client = FALSE

ApplyReadableSentence ==
    /\ call' = [fn |-> "_readable_sentence", s |-> call.s,
                ret |-> readable_sentence(call.s)]
    /\ UNCHANGED <<started, STORE, files, materials, now, pc, loop_i,
                   tts_calls, raised, escaped, client>>

ApplyIsReadableSentence ==
    /\ call' = [fn |-> "is_readable_sentence", s |-> call.s,
                ret |-> is_readable_sentence(call.s)]
    /\ UNCHANGED <<started, STORE, files, materials, now, pc, loop_i,
                   tts_calls, raised, escaped, client>>

NextFilter == ApplyReadableSentence \/ ApplyIsReadableSentence

SpecFilter == InitFilter /\ [][NextFilter]_vars

\* ------------------------------------------------- runs that nothing stops
\* nobody cancels or deletes, os.makedirs and text_to_speech succeed; the
\* event loop runs every scheduled task and wakes every sleeper
CheckpointOk(id) ==
    /\ pc[id] = "sleep"
    /\ Has(STORE, id)
    /\ \E prod \in ProduceOutcomes(materials, Get(STORE, id).title,
                                   Get(STORE, id).source_urls) :
           CheckpointStep(id, prod, "ok", "ok")

NextQuiet ==
    \/ Tick
    \/ Startup
    \/ rescan_storage
    \/ \E id \in JobIds, payload \in Payloads : create_podcast(id, payload)
    \/ \E id \in AllIds : GenerateStart(id)
    \/ \E id \in AllIds : CheckpointOk(id)

EventLoopFairness ==
    \A id \in AllIds : WF_vars(GenerateStart(id)) /\ WF_vars(CheckpointOk(id))

SpecQuiet == Init /\ [][NextQuiet]_vars /\ EventLoopFairness

\* ------------------------------------------------------------------ claims
\* a coroutine that is between two checkpoints always finds its record in
\* the store: a queued, running or cancelled record is never removed
SleepingJobInStore ==
    \A id \in AllIds : pc[id] = "sleep" => Has(STORE, id)

StatusOf(S, id) == Get(S, id).status

StatusEdges ==
    {<<"queued", "running">>, <<"running", "done">>, <<"running", "failed">>,
     <<"queued", "cancelled">>, <<"running", "cancelled">>}

\* C1: every change of a job's status follows one of the edges
\* queued->running, running->done, running->failed, queued->cancelled,
\* running->cancelled
C1_OnlyListedEdges ==
    [][\A id \in AllIds :
          (Has(STORE, id) /\ Has(STORE', id)
             /\ StatusOf(STORE, id) # StatusOf(STORE', id))
          => <<StatusOf(STORE, id), StatusOf(STORE', id)>> \in StatusEdges]_vars

\* C2: once a job is cancelled no later step writes to it: its status stays
\* cancelled and progress, script, audio_url and error keep their values
C2_CancelledIsFrozen ==
    [][\A id \in AllIds :
          (Has(STORE, id) /\ StatusOf(STORE, id) = "cancelled")
          => /\ Has(STORE', id)
             /\ StatusOf(STORE', id) = "cancelled"
             /\ Get(STORE', id).progress = Get(STORE, id).progress
             /\ Get(STORE', id).script = Get(STORE, id).script
             /\ Get(STORE', id).audio_url = Get(STORE, id).audio_url
             /\ Get(STORE', id).error = Get(STORE, id).error]_vars

\* C3: a job cancelled while its coroutine sleeps in the script phase gets
\* no further checkpoint, no text_to_speech call and no artifact file
C3_CancelStopsOrchestration ==
    [][\A id \in AllIds :
          (Has(STORE, id) /\ StatusOf(STORE, id) = "cancelled"
             /\ pc[id] = "sleep")
          => /\ loop_i'[id] = loop_i[id]
             /\ tts_calls'[id] = tts_calls[id]
             /\ (id \in DOMAIN files' => id \in DOMAIN files)]_vars

\* C4: for every job in the store, audio_url is set iff its status is done
C4_AudioUrlIffDone ==
    \A k \in 1..Len(STORE) :
        (STORE[k].audio_url # NoneVal) <=> (STORE[k].status = "done")

\* a record made by the scan and a record that orchestration brought to done
C4_Witness ==
    /\ \E id \in ForeignStems :
           Has(STORE, id) /\ Get(STORE, id).audio_url = AudioUrl(Mp3Name(id))
    /\ \E id \in JobIds :
           /\ Has(STORE, id) /\ pc[id] = "finished"
           /\ StatusOf(STORE, id) = "done"
           /\ Get(STORE, id).audio_url = AudioUrl(Mp3Name(id))

\* C5: for every job in the store, error is set iff its status is failed
C5_ErrorIffFailed ==
    \A k \in 1..Len(STORE) :
        (STORE[k].error # NoneVal) <=> (STORE[k].status = "failed")

\* a job whose synthesis raised
C5_Witness ==
    \E id \in JobIds :
        /\ Has(STORE, id) /\ StatusOf(STORE, id) = "failed"
        /\ Get(STORE, id).error = "tts error"

\* C6: _generate_podcast on a job that is cancelled, failed or done, or on an
\* id with no record, changes no record, no file and calls no synthesizer
C6_GuardedInvocationIsNoOp ==
    [][\A id \in AllIds :
          ((GenerateStart(id) \/ Reinvoke(id))
             /\ (~Has(STORE, id) \/ StatusOf(STORE, id) \in Terminalish))
          => (STORE' = STORE /\ files' = files /\ tts_calls' = tts_calls)]_vars

\* a re-invoked coroutine has returned at the guard for a job that is done
C6_Witness ==
    \E id \in JobIds :
        /\ pc[id] = "returned" /\ Has(STORE, id)
        /\ StatusOf(STORE, id) = "done" /\ Len(tts_calls[id]) = 1

\* C7: when a step of the orchestration raises, the exception does not
\* escape the task: in that same step the job becomes failed with the
\* exception's message as error and audio_url unset, the coroutine ends, and
\* text_to_speech is not called for the job afterwards
C7_ExceptionsBecomeFailed ==
    [][\A id \in AllIds :
          /\ (raised[id] = NoneVal /\ raised'[id] # NoneVal)
             => /\ id \notin escaped'
                /\ pc'[id] = "finished"
                /\ Has(STORE', id)
                /\ StatusOf(STORE', id) = "failed"
                /\ Get(STORE', id).error = raised'[id]
                /\ Get(STORE', id).audio_url = NoneVal
          /\ raised[id] # NoneVal
             => /\ tts_calls'[id] = tts_calls[id]
                /\ pc'[id] = "finished"]_vars

\* script production raised, and directory creation raised
C7_Witness ==
    \E id \in JobIds :
        /\ raised[id] \in {"pillar error", "makedirs error"}
        /\ Has(STORE, id) /\ StatusOf(STORE, id) = "failed"
        /\ tts_calls[id] = <<>>

\* a step of delete-or-cancel on a job that has a record
DeleteStep(id, rm) ==
    /\ Has(STORE, id)
    /\ pc' = pc /\ now' = now
    /\ cancel_or_delete_podcast(id, rm)

\* C8 as stated: delete on a done job removes the record and the file
\* {id}.mp3; delete on a queued job marks it cancelled and keeps the record
C8_DoneDeletedWithFile ==
    [][\A id \in AllIds, rm \in RemoveOutcomes :
          DeleteStep(id, rm)
          => /\ StatusOf(STORE, id) = "done"
                => ~Has(STORE', id) /\ id \notin DOMAIN files'
             /\ StatusOf(STORE, id) = "queued"
                => Has(STORE', id) /\ StatusOf(STORE', id) = "cancelled"]_vars

\* C8 amended: the file is removed unless os.remove raises; the record of a
\* done job is removed in either case
C8_DoneDeletedFileBestEffort ==
    [][\A id \in AllIds, rm \in RemoveOutcomes :
          DeleteStep(id, rm)
          => /\ StatusOf(STORE, id) = "done"
                => /\ ~Has(STORE', id)
                   /\ rm = "ok" => id \notin DOMAIN files'
                   /\ rm = "raise" => files' = files
             /\ StatusOf(STORE, id) = "queued"
                => Has(STORE', id) /\ StatusOf(STORE', id) = "cancelled"]_vars

\* a job that was synthesized, then deleted together with its file
C8_Witness ==
    \E id \in JobIds :
        /\ pc[id] = "finished" /\ raised[id] = NoneVal
        /\ Len(tts_calls[id]) = 1
        /\ ~Has(STORE, id) /\ id \notin DOMAIN files

\* C9 as stated: delete on a done, failed or cancelled job removes the
\* record; a queued or running job is kept and marked cancelled
C9_TerminalDeleted ==
    [][\A id \in AllIds, rm \in RemoveOutcomes :
          DeleteStep(id, rm)
          => IF StatusOf(STORE, id) \in {"done", "failed", "cancelled"}
             THEN ~Has(STORE', id)
             ELSE Has(STORE', id) /\ StatusOf(STORE', id) = "cancelled"]_vars

\* C9 amended: only done and failed jobs are removed; a queued, running or
\* cancelled job is kept with status cancelled
C9_DoneFailedDeleted ==
    [][\A id \in AllIds, rm \in RemoveOutcomes :
          DeleteStep(id, rm)
          => IF StatusOf(STORE, id) \in {"done", "failed"}
             THEN ~Has(STORE', id)
             ELSE Has(STORE', id) /\ StatusOf(STORE', id) = "cancelled"]_vars

\* a job whose run raised (status failed) and whose record was then deleted
C9_Witness ==
    \E id \in JobIds :
        /\ pc[id] = "finished" /\ raised[id] # NoneVal
        /\ ~Has(STORE, id)

\* C10 as stated: the snapshot returned by delete-or-cancel is the record as
\* it was before the operation
C10_SnapshotIsPreState ==
    [][\A id \in AllIds, rm \in RemoveOutcomes :
          DeleteStep(id, rm)
          => cancel_or_delete(STORE, files, id, rm, now).resp.body
               = AsStatus(Get(STORE, id))]_vars

\* C10 amended: for a deleted job the snapshot is the record before the
\* operation; for a job that is kept it is the record after it, with status
\* cancelled and updated_at the time of the request
C10_SnapshotPreDeletePostCancel ==
    [][\A id \in AllIds, rm \in RemoveOutcomes :
          DeleteStep(id, rm)
          => LET body == cancel_or_delete(STORE, files, id, rm, now).resp.body
             IN  IF StatusOf(STORE, id) \in {"done", "failed"}
                 THEN body = AsStatus(Get(STORE, id))
                 ELSE /\ body = AsStatus(Get(STORE', id))
                      /\ body = [AsStatus(Get(STORE, id)) EXCEPT
                                   !.status = "cancelled",
                                   !.updated_at = now]]_vars

\* a job cancelled at a later time than it was created
C10_Witness ==
    \E id \in JobIds :
        /\ Has(STORE, id) /\ StatusOf(STORE, id) = "cancelled"
        /\ Get(STORE, id).updated_at > Get(STORE, id).created_at

\* the positions of the jobs of S a status parameter selects: all of them
\* when no status is given, those in that status otherwise
Matches(S, status) ==
    {k \in 1..Len(S) : status \in {NoneVal, ""} \/ S[k].status = status}

\* the position in S of the selected job that has n selected jobs before it
NthMatch(S, status, n) ==
    CHOOSE k \in Matches(S, status) :
        Cardinality({j \in Matches(S, status) : j < k}) = n

\* C11: for every store, status filter s, limit N and offset K the listing
\* returns exactly elements K..K+N-1 (as many of them as exist) of the jobs
\* with status s in insertion order, all jobs when no filter is given, and
\* total is the number of matching jobs before slicing
C11_ListIsSliceOfMatching ==
    call.fn = "list_podcasts" =>
        LET M     == Matches(STORE, call.status)
            total == Cardinality(M)
            rest  == total - call.offset
            n     == IF rest <= 0 THEN 0
                     ELSE IF rest < call.limit THEN rest ELSE call.limit
            items == call.ret.body.items
        IN  /\ call.ret.code = 200
            /\ call.ret.body.total = total
            /\ Len(items) = n
            /\ \A p \in 1..n :
                   items[p] = AsStatus(STORE[NthMatch(STORE, call.status,
                                                      call.offset + p - 1)])

\* a filtered page that starts after the first match and skips a job in
\* another status
C11_Witness ==
    /\ call.fn = "list_podcasts"
    /\ call.status = "done"
    /\ call.offset = 1
    /\ call.limit = 1
    /\ Len(STORE) = 3
    /\ STORE[1].status = "done"
    /\ STORE[2].status = "queued"
    /\ STORE[3].status = "done"
    /\ call.ret.body.total = 2
    /\ Len(call.ret.body.items) = 1
    /\ call.ret.body.items[1].id = STORE[3].id

\* C12: a job that holds a non-empty script keeps it verbatim through every
\* step that keeps the job (running, done, failed, cancelled), and no
\* checkpoint of it enters script acquisition: the only exceptions its run
\* can meet are those of os.makedirs and text_to_speech
C12_SuppliedScriptIsKept ==
    [][\A id \in JobIds :
          (Has(STORE, id) /\ Get(STORE, id).script = UserScript)
          => /\ Has(STORE', id)
                  => Get(STORE', id).script = Get(STORE, id).script
             /\ raised'[id] # raised[id]
                  => raised'[id] \in {"makedirs error", "tts error"}]_vars

\* a job created with a script, with a content pillar on disk, is done
\* and the supplied script is what was synthesized
C12_Witness ==
    \E id \in JobIds :
        /\ materials = "pillar"
        /\ Has(STORE, id)
        /\ Get(STORE, id).status = "done"
        /\ Get(STORE, id).script = UserScript
        /\ tts_calls[id] = <<UserScript>>

\* C13: a job created without a script and without source urls, with no
\* materials on disk, that nobody cancels and whose synthesis succeeds, is
\* eventually done with progress 1.0, the synthetic placeholder naming
\* 'no sources' as its script and /media/audio/{id}.mp3 as its audio_url
C13_PlaceholderJobCompletes ==
    \A id \in JobIds :
        (/\ materials = "none"
         /\ Has(STORE, id)
         /\ Get(STORE, id).status = "queued"
         /\ Get(STORE, id).script = NoneVal
         /\ Get(STORE, id).source_urls = <<>>)
        ~> (/\ Has(STORE, id)
            /\ Get(STORE, id).status = "done"
            /\ Get(STORE, id).progress = 10
            /\ Get(STORE, id).script
                 = "[Auto-script] Podcast 'Demo'. Sources: no sources. "
                   \o "This is a demo script - replace with the actual "
                   \o "generated content."
            /\ Get(STORE, id).audio_url = "/media/audio/" \o id \o ".mp3")

\* the placeholder job is done and its placeholder went to text_to_speech
C13_Witness ==
    \E id \in JobIds :
        /\ materials = "none"
        /\ Has(STORE, id)
        /\ Get(STORE, id).status = "done"
        /\ Get(STORE, id).progress = 10
        /\ Len(tts_calls[id]) = 1
        /\ tts_calls[id][1] = Get(STORE, id).script
        /\ Get(STORE, id).script \notin {NoneVal, "", UserScript}

\* a step of the startup hook or of the rescan route in which glob yields
\* `order` and stat() raises for the files in `bad`: the only steps that
\* set `started` or add a record without scheduling a task
ScanStep(order, bad) ==
    /\ pc' = pc
    /\ files' = files
    /\ started' # started \/ Len(STORE') > Len(STORE)
    /\ order \in GlobOrders(files)
    /\ bad \subseteq StatCalled(STORE, files)
    /\ STORE' = bootstrap_from_storage(STORE, files, order, bad).store

\* the record and the point lookup the claim promises for file x
Reconciled(S, x) ==
    /\ Has(S, x)
    /\ Get(S, x).status = "done"
    /\ Get(S, x).progress = 10
    /\ Get(S, x).audio_url = "/media/audio/" \o x \o ".mp3"
    /\ Get(S, x).error = NoneVal
    /\ get_response(S, x) = [code |-> 200, body |-> AsStatus(Get(S, x))]

\* C14 as stated: after a scan every file x.mp3 whose stem had no record
\* has a done record with progress 1.0, audio_url /media/audio/x.mp3 and
\* no error, which get-by-id returns
C14_EveryFileReconciled ==
    [][(Startup \/ rescan_storage)
          => \A x \in DOMAIN files \ Keys(STORE) : Reconciled(STORE', x)]_vars

\* C14 amended: the same for every file whose stat() succeeds; a file
\* whose stat() raises gets no record; the returned count is the number of
\* records the scan created (a scan that changes the store leaves the tasks
\* and the files alone and removes no record)
C14_ReadableFilesReconciled ==
    [][(pc' = pc /\ files' = files
          /\ (started' # started \/ Len(STORE') > Len(STORE)))
       => \A order \in GlobOrders(files),
             bad \in SUBSET StatCalled(STORE, files) :
          ScanStep(order, bad)
          => /\ \A x \in DOMAIN files \ Keys(STORE) :
                    IF x \in bad THEN ~Has(STORE', x)
                    ELSE Reconciled(STORE', x)
             /\ rescan_response(STORE, files, order, bad).added
                  = Len(STORE') - Len(STORE)
             /\ rescan_response(STORE, files, order, bad).total
                  = Len(STORE')]_vars

\* the startup scan has adopted the file placed in the directory before
\* startup
C14_Witness ==
    /\ started
    /\ "abc123" \in DOMAIN files
    /\ Reconciled(STORE, "abc123")
    /\ \A id \in JobIds : pc[id] = "none"

\* C15: the progress of every job is between 0 and 1 (0..10 tenths) and is
\* 0 while the job is queued; no step lowers it, and a step that changes
\* it while the job is running raises it
C15_ProgressMonotone ==
    /\ [](\A id \in AllIds :
             Has(STORE, id)
             => /\ Get(STORE, id).progress \in 0..10
                /\ Get(STORE, id).status = "queued"
                     => Get(STORE, id).progress = 0)
    /\ [][\A id \in AllIds :
             (Has(STORE, id) /\ Has(STORE', id))
             => /\ Get(STORE', id).progress >= Get(STORE, id).progress
                /\ (/\ Get(STORE, id).status = "running"
                    /\ Get(STORE', id).progress # Get(STORE, id).progress)
                   => Get(STORE', id).progress > Get(STORE, id).progress]_vars

\* a running job has passed its second checkpoint
C15_Witness ==
    \E id \in JobIds :
        /\ Has(STORE, id)
        /\ Get(STORE, id).status = "running"
        /\ Get(STORE, id).progress = 2
        /\ loop_i[id] = 3

\* C16: the orchestration of a job is scheduled once, by the create step
\* that stores the job as queued, and never again; a record that a scan
\* creates has no orchestration scheduled or running; and while a run is
\* between two checkpoints the only step of another handler that changes
\* the job's record is the single assignment of delete-or-cancel
C16_OneWriterPerJob ==
    [][\A id \in AllIds :
          /\ (pc'[id] = "scheduled" /\ pc[id] # "scheduled")
             => /\ id \in JobIds
                /\ pc[id] = "none"
                /\ ~Has(STORE, id)
                /\ Has(STORE', id)
                /\ Get(STORE', id).status = "queued"
          /\ pc[id] # "none" => pc'[id] # "none"
          /\ pc[id] \in {"sleep", "returned", "finished"}
             => pc'[id] \in {"sleep", "returned", "finished"}
          /\ (~Has(STORE, id) /\ Has(STORE', id)
                 /\ Get(STORE', id).status = "done")
             => /\ pc'[id] = pc[id]
                /\ pc[id] \in {"none", "returned", "finished"}
          /\ (/\ pc[id] = "sleep"
              /\ pc'[id] = "sleep"
              /\ loop_i'[id] = loop_i[id]
              /\ Has(STORE, id)
              /\ ~Has(STORE', id) \/ Get(STORE', id) # Get(STORE, id))
             => /\ Has(STORE', id)
                /\ Get(STORE', id) = [Get(STORE, id) EXCEPT
                                        !.status = "cancelled",
                                        !.updated_at = now]]_vars

\* a cancel has interleaved with a run that is between two checkpoints,
\* and the record the scan created has no run
C16_Witness ==
    \E id \in JobIds :
        /\ pc[id] = "sleep"
        /\ loop_i[id] = 2
        /\ Has(STORE, id)
        /\ Get(STORE, id).status = "cancelled"
        /\ Has(STORE, "abc123")
        /\ pc["abc123"] = "none"

\* C17: on an id that has no record, get-by-id and delete-or-cancel answer
\* 404 'Podcast not found' and leave the store and the artifact files as
\* they were
C17_UnknownIdIsNotFound ==
    /\ [](\A id \in LookupIds :
             ~Has(STORE, id)
             => /\ get_response(STORE, id) = NotFound
                /\ \A rm \in RemoveOutcomes :
                       cancel_or_delete(STORE, files, id, rm, now)
                         = [store |-> STORE, files |-> files,
                            resp |-> NotFound])
    /\ [][\A id \in LookupIds :
             (~Has(STORE, id)
                /\ (get_podcast(id)
                      \/ \E rm \in RemoveOutcomes :
                             cancel_or_delete_podcast(id, rm)))
             => /\ STORE' = STORE
                /\ files' = files
                /\ call'.fn = "get_podcast" => call'.ret = NotFound]_vars

\* a lookup of an id that has an artifact but no record was answered 404
\* and the artifact is still there
C17_Witness ==
    /\ call.fn = "get_podcast"
    /\ call.id = "orphan"
    /\ call.ret.code = 404
    /\ ~Has(STORE, "orphan")
    /\ "orphan" \in DOMAIN files
    /\ Len(STORE) > 0

\* the remote call does not deliver a script
RemoteFailures == {"empty", "no_choices", "raise"}

\* a checkpoint of job id that enters script acquisition with materials on
\* disk, in which the remote call ends as `remote` and the local composer
\* does `local` on the same input
ProduceStep(id, remote, local, mk, tts) ==
    /\ pc[id] = "sleep"
    /\ Has(STORE, id)
    /\ NeedsScript(Get(STORE, id).script)
    /\ materials # "none"
    /\ CheckpointStep(id, Produce(materials, client, remote, local), mk, tts)

FilterCalls == {"_readable_sentence", "is_readable_sentence"}

\* C19 as stated: either copy of the filter rejects every input string of
\* fewer than 20 or more than 260 characters and every input string with
\* 100 * letters < 55 * length, and the two copies accept the same inputs
C19_RejectsByRawLength ==
    call.fn \in FilterCalls
    => /\ (Len(call.s) < 20 \/ Len(call.s) > 260) => ~call.ret
       /\ 100 * CountLetters(call.s) < 55 * Len(call.s) => ~call.ret
       /\ readable_sentence(call.s) = is_readable_sentence(call.s)

\* C19 amended: the same with the length and the letter share measured on
\* the string without its leading and trailing whitespace
C19_RejectsByStrippedLength ==
    call.fn \in FilterCalls
    => LET t == strip(call.s)
       IN  /\ (Len(t) < 20 \/ Len(t) > 260) => ~call.ret
           /\ 100 * CountLetters(t) < 55 * Len(t) => ~call.ret
           /\ (/\ Len(t) \in 20..260
               /\ 100 * CountLetters(t) >= 55 * Len(t)
               /\ \A tok \in MarkerTokens : ~Contains(t, tok))
              => call.ret
           /\ readable_sentence(call.s) = is_readable_sentence(call.s)

\* a text of 260 characters, 143 of them letters, is accepted, and one of
\* 20 characters with 10 letters has been rejected by the nested copy
C19_Witness ==
    /\ call.fn = "is_readable_sentence"
    /\ Len(strip(call.s)) = 20
    /\ CountLetters(call.s) = 10
    /\ ~call.ret
    /\ readable_sentence(Rep("a", 143) \o Rep("1", 117))

\* C20: a step that changes the status, progress, script, audio_url or
\* error of a job sets its updated_at to the time of the step; no step
\* lowers updated_at or changes created_at; and created_at <= updated_at
\* in every state
C20_TimestampsFollowMutations ==
    /\ [](\A id \in AllIds :
             Has(STORE, id)
             => Get(STORE, id).created_at <= Get(STORE, id).updated_at)
    /\ [][\A id \in AllIds :
             (Has(STORE, id) /\ Has(STORE', id))
             => /\ Get(STORE', id).created_at = Get(STORE, id).created_at
                /\ Get(STORE', id).updated_at >= Get(STORE, id).updated_at
                /\ (\/ Get(STORE', id).status # Get(STORE, id).status
                    \/ Get(STORE', id).progress # Get(STORE, id).progress
                    \/ Get(STORE', id).script # Get(STORE, id).script
                    \/ Get(STORE', id).audio_url # Get(STORE, id).audio_url
                    \/ Get(STORE', id).error # Get(STORE, id).error)
                   => /\ now' = now
                      /\ Get(STORE', id).updated_at = now]_vars

\* a job created at time 0 was cancelled at time 1
C20_Witness ==
    \E id \in JobIds :
        /\ Has(STORE, id)
        /\ Get(STORE, id).status = "cancelled"
        /\ Get(STORE, id).created_at = 0
        /\ Get(STORE, id).updated_at = 1

\* C21: every job whose task has been scheduled eventually has its run
\* ended with the job in the store as done, failed or cancelled, whatever
\* cancel, delete and rescan requests interleave
C21_EveryRunEnds ==
    \A id \in JobIds :
        (pc[id] = "scheduled")
        ~> (/\ pc[id] \in {"returned", "finished"}
            /\ Has(STORE, id)
            /\ Get(STORE, id).status \in {"done", "failed", "cancelled"})

\* a run has ended as failed after text_to_speech raised
C21_Witness ==
    \E id \in JobIds :
        /\ pc[id] = "finished"
        /\ raised[id] = "tts error"
        /\ Has(STORE, id)
        /\ Get(STORE, id).status = "failed"

\* C22: the blob _load_materials_text returns is never longer than the
\* global budget of 500,000 characters, and each block is a header and at
\* most the per-file budget of 200,000 characters of the file's text
C22_BlobWithinBudgets ==
    call.fn = "_load_materials_text"
    => /\ call.ret.len <= 500000
       /\ \A k \in 1..Len(call.ret.chunks) :
              call.ret.chunks[k].taken <= 200000

\* the lines of the script that speak a sentence
Spoken(lines) == SelectSeq(lines, LAMBDA l : l.sent # 0 /\ l.kind # "header")

\* the number of sentences spoken in segment g
SegmentSize(lines, g) ==
    Cardinality({k \in 1..Len(lines) :
                    lines[k].seg = g /\ lines[k].sent # 0
                      /\ lines[k].kind # "header"})

C26_LoopEndsEachSentenceOnce ==
    /\ <>(call.fn = "done")
    /\ [](call.fn = "done"
            => LET sp == Spoken(call.lines)
               IN  /\ Len(sp) = (IF call.n < 180 THEN call.n ELSE 180)
                   /\ \A k \in 1..Len(sp) : sp[k].sent = k)

\* a list of 200 sentences has been composed: 180 spoken lines in 26
\* segments
C26_Witness ==
    /\ call.fn = "done"
    /\ call.n = 200
    /\ call.seg = 27
    /\ Len(Spoken(call.lines)) = 180
    /\ SegmentSize(call.lines, 26) = 5

\* C24: every job in the store with status done has its artifact {id}.mp3
\* in the storage directory; a job becomes done only in a step in which
\* text_to_speech was called and left the file, or by a scan that found the
\* file; and a file disappears only in the step that removes its record
C24_DoneHasArtifact ==
    /\ [](\A id \in AllIds :
             (Has(STORE, id) /\ Get(STORE, id).status = "done")
             => id \in DOMAIN files)
    /\ [][\A id \in AllIds :
             /\ (/\ Has(STORE', id)
                 /\ Get(STORE', id).status = "done"
                 /\ ~(Has(STORE, id) /\ Get(STORE, id).status = "done"))
                => /\ id \in DOMAIN files'
                   /\ \/ Len(tts_calls'[id]) = Len(tts_calls[id]) + 1
                      \/ ~Has(STORE, id) /\ id \in DOMAIN files
             /\ (id \in DOMAIN files /\ id \notin DOMAIN files')
                => Has(STORE, id) /\ ~Has(STORE', id)]_vars

\* a job that the run brought to done has its artifact, and so has the
\* record the scan made
C24_Witness ==
    /\ \E id \in JobIds :
           /\ Has(STORE, id)
           /\ Get(STORE, id).status = "done"
           /\ Len(tts_calls[id]) = 1
           /\ id \in DOMAIN files
    /\ Has(STORE, "abc123")
    /\ "abc123" \in DOMAIN files

\* C25: a scan leaves every record already in the store unchanged and in
\* its place, whatever its status and whether or not its artifact exists;
\* a second scan of the same directory, with stat() failing on the same
\* files, adds 0 records and leaves the store identical
C25_ScanKeepsRecords ==
    /\ [][(Startup \/ rescan_storage)
             => /\ Len(STORE') >= Len(STORE)
                /\ \A k \in 1..Len(STORE) : STORE'[k] = STORE[k]]_vars
    /\ [](\A order \in GlobOrders(files),
             bad \in SUBSET StatCalled(STORE, files) :
             LET b == bootstrap_from_storage(STORE, files, order, bad)
             IN  /\ SubSeq(b.store, 1, Len(STORE)) = STORE
                 /\ \A again \in GlobOrders(files) :
                        /\ bootstrap_from_storage(b.store, files, again, bad)
                             = [store |-> b.store, added |-> 0]
                        /\ rescan_response(b.store, files, again, bad)
                             = [added |-> 0, total |-> Len(b.store)])

\* a rescan has adopted a file behind the record of a cancelled job that
\* has no artifact
C25_Witness ==
    /\ started
    /\ Len(STORE) = 2
    /\ STORE[1].id \in JobIds
    /\ STORE[1].status = "cancelled"
    /\ STORE[1].id \notin DOMAIN files
    /\ STORE[2].id = "abc123"
    /\ STORE[2].status = "done"

====
